---------------------------- MODULE Spec2Model ----------------------------
(***************************************************************************)
(* The DHCPv4 handler of dhammer (src/handler/dhcpv4.go): the bounded      *)
(* input channel, the Run worker with its packet templates and lease       *)
(* table, ARP defence, and the Stop / DeInit shutdown.                     *)
(*                                                                         *)
(* A Go panic that nothing recovers ends the whole process, so after one   *)
(* (crashed # "none") no action is enabled any more.                       *)
(***************************************************************************)
EXTENDS Integers, Sequences, FiniteSets, TLC

VARIABLES
    options,        \* h.options, fixed at construction
    inputChannel,   \* h.inputChannel: the buffered messages, head first
    closed,         \* close(h.inputChannel) has run
    acquiredIPs,    \* h.acquiredIPs: address string -> lease
    ethernetLayer,  \* Run's template layers (dhcpv4.go:107-151)
    ipLayer,
    udpLayer,
    outDhcpLayer,
    runPc,          \* where Run stands: idle, range, body, signal, returned
    msg,            \* Run's local msg, the message being processed
    stopPc,         \* where Stop stands: idle, wait, returned
    deinitDone,     \* DeInit has run
    crashed,        \* "none", or the goroutine whose panic ended the process
    clock,          \* time.Now(), as a logical clock
    linkAddrs,      \* the addresses bound on h.link
    addCalls,       \* the netlink.AddrAdd calls made, in order
    delCalls,       \* the netlink.AddrDel calls DeInit made: lease key -> argument
    sent,           \* the sendPayload calls: [msg, payload, ok], in order
    stats,          \* the addStat calls, in order
    errors,         \* the addError calls, in order
    calls,          \* number of ReceiveMessage calls made
    lastCall,       \* the last ReceiveMessage call: message, queue before and after, result
    accepted,       \* the messages ReceiveMessage accepted, in order
    processed       \* the messages Run finished processing, in order

vars == <<options, inputChannel, closed, acquiredIPs, ethernetLayer, ipLayer,
          udpLayer, outDhcpLayer, runPc, msg, stopPc, deinitDone, crashed,
          clock, linkAddrs, addCalls, delCalls, sent, stats, errors, calls,
          lastCall, accepted, processed>>

---------------------------------------------------------------------------
(* Bounds of the model.                                                    *)

\* cap(h.inputChannel): 10000 in NewDhcpV4, scaled down so that a full queue
\* is reached.
QueueCap == 2
\* ReceiveMessage calls the environment makes under Spec.
MaxMsgs == 2
\* ReceiveMessage calls the environment makes under SpecQueue.
MaxQueueMsgs == 4

---------------------------------------------------------------------------
(* Wire constants the handler uses (gopacket/layers).                      *)

DHCPOptMessageType == 53
DHCPOptRequestIP == 50
DHCPOptServerID == 54
DHCPOptEnd == 255
DHCPMsgTypeOffer == 2
DHCPMsgTypeRequest == 3
DHCPMsgTypeDecline == 4
DHCPMsgTypeAck == 5
DHCPMsgTypeNak == 6
DHCPMsgTypeRelease == 7
DHCPMsgTypeInform == 8
ARPRequest == 1
ARPReply == 2
BroadcastFlag == 32768
ClientPort == 68
RelayPort == 67
TargetPort == 67
AddrPrefixLen == 32

Nil == "nil"
\* A nil *netlink.Addr, and a UDP layer with no network layer for its checksum.
NilAddr == [IP |-> <<>>, Mask |-> 0]
NoPseudoheader == [SrcIP |-> <<>>, DstIP |-> <<>>]
EthernetBroadcast == "ff:ff:ff:ff:ff:ff"
IfaceHardwareAddr == "02:00:00:00:00:aa"
GatewayMAC == "02:00:00:00:00:fe"
ZeroIP == <<0, 0, 0, 0>>
BroadcastIP == <<255, 255, 255, 255>>
RelaySourceIP == <<192, 168, 0, 2>>
RelayTargetServerIP == <<192, 168, 0, 1>>
RelayGatewayIP == <<192, 168, 0, 3>>

---------------------------------------------------------------------------
(* net.IP.String() of a four-byte address, and netlink.ParseAddr.          *)

IPString(ip) ==
    IF Len(ip) = 0 THEN <<"<nil>">>
    ELSE IF Len(ip) = 4 THEN <<ip[1], ".", ip[2], ".", ip[3], ".", ip[4]>>
    ELSE <<"?", ip>>

\* netlink.ParseAddr(s): s is "a.b.c.d/len"; an error for anything else.
ParseAddr(s) ==
    IF /\ Len(s) = 9
       /\ s[2] = "." /\ s[4] = "." /\ s[6] = "." /\ s[8] = "/"
       /\ \A i \in {1, 3, 5, 7} : s[i] \in 0..255
       /\ s[9] \in 0..32
    THEN [err |-> FALSE, addr |-> [IP |-> <<s[1], s[3], s[5], s[7]>>, Mask |-> s[9]]]
    ELSE [err |-> TRUE, addr |-> NilAddr]

---------------------------------------------------------------------------
(* Messages: a received frame with its parsed layers (message.Message).    *)
(* layer is the upper layer gopacket decoded: "ARP", "DHCP" or "NONE".     *)

NoArp == [Operation |-> 0, SourceHwAddress |-> Nil, SourceProtAddress |-> ZeroIP,
          DstProtAddress |-> ZeroIP]
NoDhcp == [Xid |-> 0, YourClientIP |-> ZeroIP, ClientHWAddr |-> Nil, Options |-> <<>>]

ArpMsg(op, srcHw, srcIP, dstIP) ==
    [layer |-> "ARP", EthSrcMAC |-> srcHw, IpSrcIP |-> ZeroIP,
     arp |-> [Operation |-> op, SourceHwAddress |-> srcHw,
              SourceProtAddress |-> srcIP, DstProtAddress |-> dstIP],
     dhcp |-> NoDhcp]

DhcpMsg(ethSrc, ipSrc, xid, yourIP, hw, opts) ==
    [layer |-> "DHCP", EthSrcMAC |-> ethSrc, IpSrcIP |-> ipSrc, arp |-> NoArp,
     dhcp |-> [Xid |-> xid, YourClientIP |-> yourIP, ClientHWAddr |-> hw,
               Options |-> opts]]

OtherMsg == [layer |-> "NONE", EthSrcMAC |-> GatewayMAC, IpSrcIP |-> ZeroIP,
             arp |-> NoArp, dhcp |-> NoDhcp]

\* layers.NewDHCPOption(t, data)
NewDHCPOption(t, data) == [Type |-> t, Length |-> Len(data), Data |-> data]

\* The zero value of layers.DHCPOption, a slot of replyOptions never written.
ZeroOption == [Type |-> 0, Length |-> 0, Data |-> <<>>]

\* replyOptions[code] after the loop of dhcpv4.go:169-171: the last option of
\* the reply with that code, the zero option when there is none.
replyOptions(opts, code) ==
    LET at == {i \in 1..Len(opts) : opts[i].Type = code}
    IN IF at = {} THEN ZeroOption
       ELSE opts[CHOOSE i \in at : \A j \in at : j <= i]

---------------------------------------------------------------------------
(* Run's prologue: the template layers (dhcpv4.go:105-153).                *)

UnsetLayer == [set |-> FALSE]

NewEthernetLayer(o) ==
    [set |-> TRUE,
     DstMAC |-> IF o.DhcpRelay \/ ~o.EthernetBroadcast THEN GatewayMAC
                ELSE EthernetBroadcast,
     SrcMAC |-> IfaceHardwareAddr,
     EthernetType |-> "IPv4"]

NewIpLayer(o) ==
    [set |-> TRUE,
     SrcIP |-> IF o.DhcpRelay THEN RelaySourceIP ELSE ZeroIP,
     DstIP |-> IF o.DhcpRelay THEN RelayTargetServerIP ELSE BroadcastIP]

\* pseudoheader: the IP layer SetNetworkLayerForChecksum last named, none
\* before the first call.
NewUdpLayer(o) ==
    [set |-> TRUE,
     SrcPort |-> IF o.DhcpRelay THEN RelayPort ELSE ClientPort,
     DstPort |-> TargetPort,
     pseudoheader |-> NoPseudoheader]

NewOutDhcpLayer(o) ==
    [set |-> TRUE,
     Operation |-> "Request",
     Xid |-> 0,
     Flags |-> IF o.DhcpBroadcast THEN BroadcastFlag ELSE 0,
     ClientIP |-> ZeroIP,
     RelayAgentIP |-> IF o.DhcpRelay THEN RelayGatewayIP ELSE ZeroIP,
     ClientHWAddr |-> Nil,
     Options |-> <<>>]

\* udpLayer.SetNetworkLayerForChecksum(ip)
SetNetworkLayerForChecksum(udp, ip) ==
    [udp EXCEPT !.pseudoheader = [SrcIP |-> ip.SrcIP, DstIP |-> ip.DstIP]]

\* gopacket.SerializeLayers(buf, opts, eth, ip, udp, dhcp): the bytes, as the
\* layers a peer decodes from them. The UDP checksum covers the pseudo-header
\* of the IP layer the UDP layer was given for its checksum.
SerializeLayers(eth, ip, udp, dhcp) ==
    [kind |-> "DHCP",
     Ethernet |-> [DstMAC |-> eth.DstMAC, SrcMAC |-> eth.SrcMAC,
                   EthernetType |-> eth.EthernetType],
     IPv4 |-> [SrcIP |-> ip.SrcIP, DstIP |-> ip.DstIP],
     UDP |-> [SrcPort |-> udp.SrcPort, DstPort |-> udp.DstPort,
              ChecksumOver |-> udp.pseudoheader],
     DHCPv4 |-> [Operation |-> dhcp.Operation, Xid |-> dhcp.Xid,
                 Flags |-> dhcp.Flags, ClientIP |-> dhcp.ClientIP,
                 RelayAgentIP |-> dhcp.RelayAgentIP,
                 ClientHWAddr |-> dhcp.ClientHWAddr,
                 Options |-> dhcp.Options]]

---------------------------------------------------------------------------
(* OFFER: the REQUEST or DECLINE (dhcpv4.go:181-217).                      *)

\* RequestLayer without line 185: the transaction ID of the last packet stays.
RequestLayerStaleXid(layer, o, reply) ==
    [layer EXCEPT
        !.Options = <<
            NewDHCPOption(DHCPOptMessageType,
                          <<IF o.DhcpDecline THEN DHCPMsgTypeDecline
                            ELSE DHCPMsgTypeRequest>>),
            NewDHCPOption(DHCPOptRequestIP, reply.YourClientIP),
            NewDHCPOption(DHCPOptServerID,
                          replyOptions(reply.Options, DHCPOptServerID).Data),
            NewDHCPOption(DHCPOptEnd, <<>>) >>,
        !.ClientHWAddr = reply.ClientHWAddr]

\* outDhcpLayer after lines 185-199.
RequestLayer(layer, o, reply) ==
    [layer EXCEPT
        !.Xid = reply.Xid,
        !.Options = <<
            NewDHCPOption(DHCPOptMessageType,
                          <<IF o.DhcpDecline THEN DHCPMsgTypeDecline
                            ELSE DHCPMsgTypeRequest>>),
            NewDHCPOption(DHCPOptRequestIP, reply.YourClientIP),
            NewDHCPOption(DHCPOptServerID,
                          replyOptions(reply.Options, DHCPOptServerID).Data),
            NewDHCPOption(DHCPOptEnd, <<>>) >>,
        !.ClientHWAddr = reply.ClientHWAddr]

---------------------------------------------------------------------------
(* ACK: the lease (dhcpv4.go:222-246).                                     *)

NewLease(m, now) ==
    [Packet |-> m, LinkAddr |-> NilAddr, Acquired |-> now,
     HwAddr |-> m.dhcp.ClientHWAddr]

\* CreatesLease without the lookup of line 226: every ACK writes the lease.
CreatesLeaseOnEveryAck(leases, o, ipStr) == o.Arp \/ o.Bind

\* CreatesLease without the test of line 222: a lease in every mode.
CreatesLeaseInEveryMode(leases, o, ipStr) == ipStr \notin DOMAIN leases

\* Whether the ACK for ipStr creates a lease (lines 222 and 226).
CreatesLease(leases, o, ipStr) ==
    (o.Arp \/ o.Bind) /\ ipStr \notin DOMAIN leases

\* AckLease attaching the handle although netlink.AddrAdd failed.
AckLeaseHandleOnFailure(leases, link, o, m, now, addOk) ==
    LET ipStr == IPString(m.dhcp.YourClientIP)
        parsed == ParseAddr(ipStr \o <<"/", AddrPrefixLen>>)
        same == [leases |-> leases, link |-> link, adds |-> <<>>, errs |-> <<>>]
        fresh == (ipStr :> NewLease(m, now)) @@ leases
        bound == [fresh EXCEPT ![ipStr].LinkAddr = parsed.addr]
    IN IF ~CreatesLease(leases, o, ipStr) THEN same
       ELSE IF ~o.Bind THEN [same EXCEPT !.leases = fresh]
       ELSE IF parsed.err
            THEN [same EXCEPT !.leases = fresh, !.errs = <<"ParseAddr">>]
       ELSE [leases |-> bound,
             link |-> IF addOk THEN link \cup {parsed.addr} ELSE link,
             adds |-> <<parsed.addr>>,
             errs |-> IF addOk THEN <<>> ELSE <<"AddrAdd">>]

\* The lease table, the link, the AddrAdd calls and the errors after lines
\* 222-246; addOk is whether netlink.AddrAdd succeeds.
AckLease(leases, link, o, m, now, addOk) ==
    LET ipStr == IPString(m.dhcp.YourClientIP)
        parsed == ParseAddr(ipStr \o <<"/", AddrPrefixLen>>)
        same == [leases |-> leases, link |-> link, adds |-> <<>>, errs |-> <<>>]
        fresh == (ipStr :> NewLease(m, now)) @@ leases
    IN IF ~CreatesLease(leases, o, ipStr) THEN same
       ELSE IF ~o.Bind THEN [same EXCEPT !.leases = fresh]
       ELSE IF parsed.err
            THEN [same EXCEPT !.leases = fresh, !.errs = <<"ParseAddr">>]
       ELSE IF ~addOk
            THEN [same EXCEPT !.leases = fresh, !.adds = <<parsed.addr>>,
                              !.errs = <<"AddrAdd">>]
       ELSE [leases |-> [fresh EXCEPT ![ipStr].LinkAddr = parsed.addr],
             link |-> link \cup {parsed.addr},
             adds |-> <<parsed.addr>>,
             errs |-> <<>>]

---------------------------------------------------------------------------
(* ACK: the unicast RELEASE or INFORM (dhcpv4.go:248-318).                 *)

ReleaseEthernetLayer(m) ==
    [set |-> TRUE, DstMAC |-> m.EthSrcMAC, SrcMAC |-> IfaceHardwareAddr,
     EthernetType |-> "IPv4"]

ReleaseIpLayer(m) ==
    [set |-> TRUE, SrcIP |-> m.dhcp.YourClientIP, DstIP |-> m.IpSrcIP]

\* ReleaseLayer without line 286: the broadcast flag is left as configured.
ReleaseLayerKeepsFlags(layer, o, reply) ==
    [layer EXCEPT
        !.Xid = reply.Xid,
        !.ClientIP = reply.YourClientIP,
        !.Options = <<
            NewDHCPOption(DHCPOptMessageType,
                          <<IF o.DhcpInfo THEN DHCPMsgTypeInform
                            ELSE DHCPMsgTypeRelease>>),
            NewDHCPOption(DHCPOptEnd, <<>>) >>,
        !.ClientHWAddr = reply.ClientHWAddr]

\* outDhcpLayer after lines 252 and 280-295, as it is serialized.
ReleaseLayer(layer, o, reply) ==
    [layer EXCEPT
        !.Xid = reply.Xid,
        !.ClientIP = reply.YourClientIP,
        !.Options = <<
            NewDHCPOption(DHCPOptMessageType,
                          <<IF o.DhcpInfo THEN DHCPMsgTypeInform
                            ELSE DHCPMsgTypeRelease>>),
            NewDHCPOption(DHCPOptEnd, <<>>) >>,
        !.Flags = 0,
        !.ClientHWAddr = reply.ClientHWAddr]

\* RestoreLayer without line 307: the client IP of the RELEASE stays.
RestoreLayerFlagsOnly(layer, previousClientIP, previousFlags) ==
    [layer EXCEPT !.Flags = previousFlags]

\* RestoreLayer without line 309: the flags stay zeroed.
RestoreLayerClientIPOnly(layer, previousClientIP, previousFlags) ==
    [layer EXCEPT !.ClientIP = previousClientIP]

\* Lines 306-309: the layer with ClientIP and Flags put back.
RestoreLayer(layer, previousClientIP, previousFlags) ==
    [layer EXCEPT !.ClientIP = previousClientIP, !.Flags = previousFlags]

---------------------------------------------------------------------------
(* handleARP (dhcpv4.go:328-371).                                          *)

\* ArpAnswered without the test of line 331: ARP replies are answered too.
ArpAnsweredAnyOperation(leases, arpRequest) ==
    IPString(arpRequest.DstProtAddress) \in DOMAIN leases

\* Lines 331-332: the request is answered.
ArpAnswered(leases, arpRequest) ==
    /\ arpRequest.Operation = ARPRequest
    /\ IPString(arpRequest.DstProtAddress) \in DOMAIN leases

\* ArpReplyPayload without lines 355-357: always the interface's address.
ArpReplyPayloadOwnMAC(o, arpRequest, lease) ==
    [kind |-> "ARP",
     Ethernet |-> [DstMAC |-> arpRequest.SourceHwAddress,
                   SrcMAC |-> IfaceHardwareAddr,
                   EthernetType |-> "ARP"],
     ARP |-> [Operation |-> ARPReply,
              DstHwAddress |-> arpRequest.SourceHwAddress,
              DstProtAddress |-> arpRequest.SourceProtAddress,
              SourceHwAddress |-> IfaceHardwareAddr,
              SourceProtAddress |-> arpRequest.DstProtAddress]]

\* Lines 336-364: the serialized reply.
ArpReplyPayload(o, arpRequest, lease) ==
    [kind |-> "ARP",
     Ethernet |-> [DstMAC |-> arpRequest.SourceHwAddress,
                   SrcMAC |-> IfaceHardwareAddr,
                   EthernetType |-> "ARP"],
     ARP |-> [Operation |-> ARPReply,
              DstHwAddress |-> arpRequest.SourceHwAddress,
              DstProtAddress |-> arpRequest.SourceProtAddress,
              SourceHwAddress |-> IF o.ArpFakeMAC THEN lease.HwAddr
                                  ELSE IfaceHardwareAddr,
              SourceProtAddress |-> arpRequest.DstProtAddress]]

---------------------------------------------------------------------------
(* The body of Run's loop (dhcpv4.go:157-322).                             *)

\* Line 173 indexes Data[0] of the message-type slot: out of range, a panic,
\* when the reply has no such option or an empty one.
MsgTypePanics(reply) ==
    Len(replyOptions(reply.Options, DHCPOptMessageType).Data) = 0

replyMsgType(reply) == replyOptions(reply.Options, DHCPOptMessageType).Data[1]

\* Line 320 indexes dhcpReply.Options[0].Data[0].
FirstOptionPanics(reply) ==
    \/ Len(reply.Options) = 0
    \/ Len(reply.Options[1].Data) = 0

\* Line 320: the reply counts as a NAK.
IsNakByFirstOption(reply) == reply.Options[1].Data[1] = DHCPMsgTypeNak

\* ArpStats counting an ARP message only when it is answered.
ArpStatsOnlyWhenAnswered(answered, ok) ==
    IF answered
    THEN <<"ArpRequestReceivedStat">>
         \o (IF ok THEN <<"ArpReplySentStat">> ELSE <<>>)
    ELSE <<>>

\* The statistics of the ARP branch: line 158 counts the message before
\* handleARP looks at it, lines 366-368 count the reply sendPayload accepted.
ArpStats(answered, ok) ==
    <<"ArpRequestReceivedStat">>
    \o (IF answered /\ ok THEN <<"ArpReplySentStat">> ELSE <<>>)

\* The IP layer line 297 names for the UDP checksum of a RELEASE/INFORM.
ReleaseChecksumLayer(ip, releaseIp) == ip

SentEntry(m, payload, ok) == [msg |-> m, payload |-> payload, ok |-> ok]

\* What one pass of the loop body does to the worker's state for message m;
\* ok is sendPayload's answer, addOk whether netlink.AddrAdd succeeds.
Effects(m, ok, addOk) ==
    LET reply == m.dhcp
        base == [panic |-> FALSE, leases |-> acquiredIPs, link |-> linkAddrs,
                 adds |-> <<>>, errs |-> <<>>, layer |-> outDhcpLayer,
                 udp |-> udpLayer, out |-> <<>>, st |-> <<>>]
        \* lines 157-160 and handleARP
        arp ==
            IF ArpAnswered(acquiredIPs, m.arp)
            THEN [base EXCEPT
                    !.st = ArpStats(TRUE, ok),
                    !.out = <<SentEntry(m,
                        ArpReplyPayload(options, m.arp,
                            acquiredIPs[IPString(m.arp.DstProtAddress)]), ok)>>]
            ELSE [base EXCEPT !.st = ArpStats(FALSE, ok)]
        \* lines 177-217
        reqLayer == RequestLayer(outDhcpLayer, options, reply)
        reqUdp == SetNetworkLayerForChecksum(udpLayer, ipLayer)
        offer ==
            IF options.Handshake
            THEN [base EXCEPT
                    !.layer = reqLayer,
                    !.udp = reqUdp,
                    !.out = <<SentEntry(m,
                        SerializeLayers(ethernetLayer, ipLayer, reqUdp, reqLayer),
                        ok)>>,
                    !.st = <<"OfferReceivedStat">>
                           \o (IF ~ok THEN <<>>
                               ELSE IF options.DhcpDecline
                                    THEN <<"DeclineSentStat">>
                                    ELSE <<"RequestSentStat">>)]
            ELSE [base EXCEPT !.st = <<"OfferReceivedStat">>]
        \* lines 218-318
        lease == AckLease(acquiredIPs, linkAddrs, options, m, clock, addOk)
        leased == [base EXCEPT
                    !.leases = lease.leases, !.link = lease.link,
                    !.adds = lease.adds, !.errs = lease.errs,
                    !.st = <<"AckReceivedStat">>]
        relLayer == ReleaseLayer(outDhcpLayer, options, reply)
        relUdp == SetNetworkLayerForChecksum(udpLayer,
                      ReleaseChecksumLayer(ipLayer, ReleaseIpLayer(m)))
        ack ==
            IF options.DhcpRelease \/ options.DhcpInfo
            THEN [leased EXCEPT
                    !.layer = RestoreLayer(relLayer, outDhcpLayer.ClientIP,
                                           outDhcpLayer.Flags),
                    !.udp = relUdp,
                    !.out = <<SentEntry(m,
                        SerializeLayers(ReleaseEthernetLayer(m), ReleaseIpLayer(m),
                                        relUdp, relLayer),
                        ok)>>,
                    !.st = <<"AckReceivedStat">>
                           \o (IF ~ok THEN <<>>
                               ELSE IF options.DhcpInfo
                                    THEN <<"InfoSentStat">>
                                    ELSE <<"ReleaseSentStat">>)]
            ELSE leased
    IN  IF options.Arp /\ m.layer = "ARP" THEN arp
        ELSE IF m.layer # "DHCP" THEN base
        ELSE IF MsgTypePanics(reply) THEN [base EXCEPT !.panic = TRUE]
        ELSE IF replyMsgType(reply) = DHCPMsgTypeOffer THEN offer
        ELSE IF replyMsgType(reply) = DHCPMsgTypeAck THEN ack
        ELSE IF FirstOptionPanics(reply) THEN [base EXCEPT !.panic = TRUE]
        ELSE IF IsNakByFirstOption(reply)
             THEN [base EXCEPT !.st = <<"NakReceivedStat">>]
        ELSE base

---------------------------------------------------------------------------
(* The inputs of the model.                                                *)

AddrA == <<10, 0, 0, 5>>
AddrB == <<10, 0, 0, 6>>
ServerIP == <<10, 0, 0, 1>>
Server2IP == <<10, 0, 0, 2>>
PeerIP == <<10, 0, 0, 9>>
ServerMAC == "02:00:00:00:00:01"
Server2MAC == "02:00:00:00:00:02"
ClientMAC1 == "02:00:00:00:01:01"
ClientMAC2 == "02:00:00:00:01:02"
PeerMAC == "02:00:00:00:00:09"

MsgTypeOpt(t) == NewDHCPOption(DHCPOptMessageType, <<t>>)
ServerIdOpt(ip) == NewDHCPOption(DHCPOptServerID, ip)

OfferA == DhcpMsg(ServerMAC, ServerIP, 1, AddrA, ClientMAC1,
                  <<MsgTypeOpt(DHCPMsgTypeOffer), ServerIdOpt(ServerIP)>>)
AckA1 == DhcpMsg(ServerMAC, ServerIP, 1, AddrA, ClientMAC1,
                 <<MsgTypeOpt(DHCPMsgTypeAck), ServerIdOpt(ServerIP)>>)
AckA2 == DhcpMsg(Server2MAC, Server2IP, 2, AddrA, ClientMAC2,
                 <<MsgTypeOpt(DHCPMsgTypeAck), ServerIdOpt(Server2IP)>>)
AckB == DhcpMsg(ServerMAC, ServerIP, 3, AddrB, ClientMAC2,
                <<MsgTypeOpt(DHCPMsgTypeAck), ServerIdOpt(ServerIP)>>)
NakA == DhcpMsg(ServerMAC, ServerIP, 1, ZeroIP, ClientMAC1,
                <<MsgTypeOpt(DHCPMsgTypeNak), ServerIdOpt(ServerIP)>>)
NoTypeReply == DhcpMsg(ServerMAC, ServerIP, 4, AddrA, ClientMAC1,
                       <<ServerIdOpt(ServerIP)>>)
ArpRequestA == ArpMsg(ARPRequest, PeerMAC, PeerIP, AddrA)
ArpReplyA == ArpMsg(ARPReply, PeerMAC, PeerIP, AddrA)

OptionNames == {"Arp", "ArpFakeMAC", "Bind", "Handshake", "DhcpDecline",
                "DhcpRelease", "DhcpInfo", "DhcpBroadcast", "DhcpRelay",
                "EthernetBroadcast"}

AllConfigs == [OptionNames -> BOOLEAN]

\* Spec: the packet synthesis.  Every combination of the options that shape
\* an outbound DHCP packet, with lease recording off.
Messages == {OfferA, AckA1, AckB, NakA}

Configs == {o \in AllConfigs : ~o.Arp /\ ~o.ArpFakeMAC /\ ~o.Bind}

\* SpecLease: the lease table, ARP defence and binding.  Every combination
\* of the options that decide them and of the RELEASE/INFORM options.
LeaseMessages == {AckA1, AckA2, AckB, ArpRequestA, ArpReplyA}

LeaseConfigs == {o \in AllConfigs : /\ ~o.Handshake /\ ~o.DhcpDecline
                                    /\ o.DhcpBroadcast /\ ~o.DhcpRelay
                                    /\ o.EthernetBroadcast}

\* SpecQueue: the channel and the shutdown, with longer runs of messages,
\* one of them a reply that makes Run panic.
QueueMessages == {OfferA, AckA1, NoTypeReply}

QueueConfigs == {o \in AllConfigs : /\ o.Handshake /\ o.DhcpRelease /\ o.Bind
                                    /\ o.DhcpBroadcast /\ o.EthernetBroadcast
                                    /\ ~o.DhcpDecline /\ ~o.DhcpInfo
                                    /\ ~o.DhcpRelay /\ ~o.ArpFakeMAC}

\* Replies as a peer may send them: a NAK whose message-type option is not
\* the first option, a reply of another type whose first option starts with
\* the byte 6, and replies that lack an option or carry it empty.
NakLate == DhcpMsg(ServerMAC, ServerIP, 5, ZeroIP, ClientMAC1,
                   <<ServerIdOpt(ServerIP), MsgTypeOpt(DHCPMsgTypeNak)>>)
FirstByteSixReply == DhcpMsg(ServerMAC, ServerIP, 6, ZeroIP, ClientMAC1,
                   <<NewDHCPOption(DHCPOptRequestIP, <<DHCPMsgTypeNak, 0, 0, 5>>),
                     MsgTypeOpt(DHCPMsgTypeInform)>>)
EmptyOptionsReply == DhcpMsg(ServerMAC, ServerIP, 7, AddrA, ClientMAC1, <<>>)
EmptyTypeReply == DhcpMsg(ServerMAC, ServerIP, 8, AddrA, ClientMAC1,
                   <<NewDHCPOption(DHCPOptMessageType, <<>>)>>)
FirstEmptyReply == DhcpMsg(ServerMAC, ServerIP, 9, ZeroIP, ClientMAC1,
                   <<NewDHCPOption(DHCPOptServerID, <<>>),
                     MsgTypeOpt(DHCPMsgTypeNak)>>)

\* The alphabet and the configurations for the claims about NAKs and
\* malformed replies.
ReplyMessages == {OfferA, AckA1, NakA, NakLate, FirstByteSixReply, NoTypeReply,
                  EmptyOptionsReply, EmptyTypeReply, FirstEmptyReply}

ReplyConfigs == {o \in AllConfigs : /\ o.Bind /\ o.DhcpRelease
                                    /\ o.DhcpBroadcast /\ o.EthernetBroadcast
                                    /\ ~o.DhcpDecline /\ ~o.DhcpInfo
                                    /\ ~o.DhcpRelay /\ ~o.ArpFakeMAC}

---------------------------------------------------------------------------
(* The state after NewDhcpV4 (dhcpv4.go:42-58).                            *)

NoCall == [msg |-> OtherMsg, before |-> <<>>, after |-> <<>>, ret |-> "none"]

InitWith(configs) ==
    /\ options \in configs
    /\ inputChannel = <<>>
    /\ closed = FALSE
    /\ acquiredIPs = <<>>
    /\ ethernetLayer = UnsetLayer
    /\ ipLayer = UnsetLayer
    /\ udpLayer = UnsetLayer
    /\ outDhcpLayer = UnsetLayer
    /\ runPc = "idle"
    /\ msg = OtherMsg
    /\ stopPc = "idle"
    /\ deinitDone = FALSE
    /\ crashed = "none"
    /\ clock = 1
    /\ linkAddrs = {}
    /\ addCalls = <<>>
    /\ delCalls = <<>>
    /\ sent = <<>>
    /\ stats = <<>>
    /\ errors = <<>>
    /\ calls = 0
    /\ lastCall = NoCall
    /\ accepted = <<>>
    /\ processed = <<>>

Init == InitWith(Configs)

InitLease == InitWith(LeaseConfigs)

InitQueue == InitWith(QueueConfigs)

InitReply == InitWith(ReplyConfigs)

---------------------------------------------------------------------------
(* ReceiveMessage (dhcpv4.go:60-70).                                       *)

\* The select of lines 62-66 on a channel holding queue, of capacity cap:
\* a send on a closed channel panics, a send with room is taken, and
\* otherwise the default case runs.
SelectSend(queue, isClosed, cap, m) ==
    IF isClosed THEN [queue |-> queue, ret |-> "panic"]
    ELSE IF Len(queue) < cap THEN [queue |-> Append(queue, m), ret |-> "true"]
    ELSE [queue |-> queue, ret |-> "false"]

ReceiveMessage(m) ==
    LET r == SelectSend(inputChannel, closed, QueueCap, m)
    IN /\ crashed = "none"
       /\ inputChannel' = r.queue
       /\ lastCall' = [msg |-> m, before |-> inputChannel, after |-> r.queue,
                       ret |-> r.ret]
       /\ calls' = calls + 1
       /\ accepted' = IF r.ret = "true" THEN Append(accepted, m) ELSE accepted
       /\ crashed' = IF r.ret = "panic" THEN "ReceiveMessage" ELSE crashed
       /\ UNCHANGED <<options, closed, acquiredIPs, ethernetLayer, ipLayer,
                      udpLayer, outDhcpLayer, runPc, msg, stopPc, deinitDone,
                      clock, linkAddrs, addCalls, delCalls, sent, stats,
                      errors, processed>>

---------------------------------------------------------------------------
(* Run (dhcpv4.go:100-326).                                                *)

\* Lines 105-153.
RunStart ==
    /\ crashed = "none"
    /\ runPc = "idle"
    /\ ethernetLayer' = NewEthernetLayer(options)
    /\ ipLayer' = NewIpLayer(options)
    /\ udpLayer' = NewUdpLayer(options)
    /\ outDhcpLayer' = NewOutDhcpLayer(options)
    /\ runPc' = "range"
    /\ UNCHANGED <<options, inputChannel, closed, acquiredIPs, msg, stopPc,
                   deinitDone, crashed, clock, linkAddrs, addCalls, delCalls,
                   sent, stats, errors, calls, lastCall, accepted, processed>>

\* Dequeued taking the newest message instead of the oldest.
DequeuedFromTail(queue) ==
    [msg |-> queue[Len(queue)], rest |-> SubSeq(queue, 1, Len(queue) - 1)]

\* The message the range of line 155 takes from the channel.
Dequeued(queue) == [msg |-> Head(queue), rest |-> Tail(queue)]

\* Line 155, a message is there.
RunDequeue ==
    /\ crashed = "none"
    /\ runPc = "range"
    /\ inputChannel # <<>>
    /\ msg' = Dequeued(inputChannel).msg
    /\ inputChannel' = Dequeued(inputChannel).rest
    /\ runPc' = "body"
    /\ UNCHANGED <<options, closed, acquiredIPs, ethernetLayer, ipLayer,
                   udpLayer, outDhcpLayer, stopPc, deinitDone, crashed, clock,
                   linkAddrs, addCalls, delCalls, sent, stats, errors, calls,
                   lastCall, accepted, processed>>

\* Lines 157-322 for the message taken.
RunBody ==
    /\ crashed = "none"
    /\ runPc = "body"
    /\ \E ok \in BOOLEAN, addOk \in BOOLEAN :
        LET e == Effects(msg, ok, addOk)
        IN IF e.panic
           THEN /\ crashed' = "Run"
                /\ UNCHANGED <<acquiredIPs, linkAddrs, addCalls, errors,
                               outDhcpLayer, udpLayer, sent, stats, runPc,
                               clock, processed>>
           ELSE /\ acquiredIPs' = e.leases
                /\ linkAddrs' = e.link
                /\ addCalls' = addCalls \o e.adds
                /\ errors' = errors \o e.errs
                /\ outDhcpLayer' = e.layer
                /\ udpLayer' = e.udp
                /\ sent' = sent \o e.out
                /\ stats' = stats \o e.st
                /\ runPc' = "range"
                /\ clock' = clock + 1
                /\ processed' = Append(processed, msg)
                /\ UNCHANGED crashed
    /\ UNCHANGED <<options, inputChannel, closed, ethernetLayer, ipLayer, msg,
                   stopPc, deinitDone, delCalls, calls, lastCall, accepted>>

\* ChannelDrained for a range that ends as soon as the channel is closed.
ChannelClosedOnly(queue, isClosed) == isClosed

\* When the range of line 155 ends: the channel is closed and nothing is
\* left in it.
ChannelDrained(queue, isClosed) == isClosed /\ queue = <<>>

\* Line 155, the channel is closed and drained: the loop ends.
RunExit ==
    /\ crashed = "none"
    /\ runPc = "range"
    /\ ChannelDrained(inputChannel, closed)
    /\ runPc' = "signal"
    /\ UNCHANGED <<options, inputChannel, closed, acquiredIPs, ethernetLayer,
                   ipLayer, udpLayer, outDhcpLayer, msg, stopPc, deinitDone,
                   crashed, clock, linkAddrs, addCalls, delCalls, sent, stats,
                   errors, calls, lastCall, accepted, processed>>

---------------------------------------------------------------------------
(* Stop (dhcpv4.go:94-98).                                                 *)

\* Line 95.
StopClose ==
    /\ crashed = "none"
    /\ stopPc = "idle"
    /\ closed' = TRUE
    /\ stopPc' = "wait"
    /\ UNCHANGED <<options, inputChannel, acquiredIPs, ethernetLayer, ipLayer,
                   udpLayer, outDhcpLayer, runPc, msg, deinitDone, crashed,
                   clock, linkAddrs, addCalls, delCalls, sent, stats, errors,
                   calls, lastCall, accepted, processed>>

\* DoneReceivable for a Stop that does not wait for Run.
DoneReceivableAlways(rpc) == TRUE

\* Whether the receive of line 96 can complete: doneChannel is unbuffered,
\* so only together with Run's send of line 325.
DoneReceivable(rpc) == rpc = "signal"

\* Lines 96-97 with line 325: the rendezvous on doneChannel, after which
\* both Run and Stop return.
StopReceive ==
    /\ crashed = "none"
    /\ stopPc = "wait"
    /\ DoneReceivable(runPc)
    /\ stopPc' = "returned"
    /\ runPc' = IF runPc = "signal" THEN "returned" ELSE runPc
    /\ UNCHANGED <<options, inputChannel, closed, acquiredIPs, ethernetLayer,
                   ipLayer, udpLayer, outDhcpLayer, msg, deinitDone, crashed,
                   clock, linkAddrs, addCalls, delCalls, sent, stats, errors,
                   calls, lastCall, accepted, processed>>

---------------------------------------------------------------------------
(* DeInit (dhcpv4.go:81-92).                                               *)

\* The leases the loop of line 84 calls netlink.AddrDel for, each with the
\* argument passed.
DelArguments(leases, o) ==
    IF o.Bind THEN [k \in DOMAIN leases |-> leases[k].LinkAddr] ELSE <<>>

\* The engine's shutdown order (its callers are not part of this file): DeInit
\* is called once, after Stop has returned.
DeInitCallable == stopPc = "returned" /\ ~deinitDone

\* failing are the leases whose AddrDel returns an error; an AddrDel given a
\* nil address returns an error or dereferences it and panics (nilPanics).
DeInit ==
    /\ crashed = "none"
    /\ DeInitCallable
    /\ \E failing \in SUBSET DOMAIN DelArguments(acquiredIPs, options),
          nilPanics \in BOOLEAN :
        LET args == DelArguments(acquiredIPs, options)
            nils == {k \in DOMAIN args : args[k] = NilAddr}
        IN /\ nils \subseteq failing
           /\ delCalls' = args
           /\ linkAddrs' = linkAddrs \
                            {args[k] : k \in (DOMAIN args) \ failing}
           /\ errors' = errors \o [i \in 1..Cardinality(failing) |-> "AddrDel"]
           /\ crashed' = IF nilPanics /\ nils # {} THEN "DeInit" ELSE crashed
    /\ deinitDone' = TRUE
    /\ UNCHANGED <<options, inputChannel, closed, acquiredIPs, ethernetLayer,
                   ipLayer, udpLayer, outDhcpLayer, runPc, msg, stopPc, clock,
                   addCalls, sent, stats, calls, lastCall, accepted, processed>>

---------------------------------------------------------------------------

Next ==
    \/ \E m \in Messages : calls < MaxMsgs /\ ReceiveMessage(m)
    \/ RunStart
    \/ RunDequeue
    \/ RunBody
    \/ RunExit
    \/ StopClose
    \/ StopReceive
    \/ DeInit

Spec == Init /\ [][Next]_vars

NextLease ==
    \/ \E m \in LeaseMessages : calls < MaxMsgs /\ ReceiveMessage(m)
    \/ RunStart
    \/ RunDequeue
    \/ RunBody
    \/ RunExit
    \/ StopClose
    \/ StopReceive
    \/ DeInit

SpecLease == InitLease /\ [][NextLease]_vars

NextQueue ==
    \/ \E m \in QueueMessages : calls < MaxQueueMsgs /\ ReceiveMessage(m)
    \/ RunStart
    \/ RunDequeue
    \/ RunBody
    \/ RunExit
    \/ StopClose
    \/ StopReceive
    \/ DeInit

SpecQueue == InitQueue /\ [][NextQueue]_vars

\* SpecQueue with the scheduling Go gives: a goroutine that can take a step
\* takes it, so Run, once started, keeps going and Stop's receive completes
\* when Run's send is ready.
QueueFairness ==
    /\ WF_vars(RunDequeue)
    /\ WF_vars(RunBody)
    /\ WF_vars(RunExit)
    /\ WF_vars(StopReceive)

SpecQueueFair == InitQueue /\ [][NextQueue]_vars /\ QueueFairness

NextReply ==
    \/ \E m \in ReplyMessages : calls < MaxMsgs /\ ReceiveMessage(m)
    \/ RunStart
    \/ RunDequeue
    \/ RunBody
    \/ RunExit
    \/ StopClose
    \/ StopReceive
    \/ DeInit

SpecReply == InitReply /\ [][NextReply]_vars

---------------------------------------------------------------------------
(* The properties.  A reply's message type is read as a DHCP peer reads    *)
(* it: the first byte of its option 53.                                    *)

MessageTypeOf(m) ==
    LET data == replyOptions(m.dhcp.Options, DHCPOptMessageType).Data
    IN IF m.layer = "DHCP" /\ Len(data) > 0 THEN data[1] ELSE 0

IsOffer(m) == MessageTypeOf(m) = DHCPMsgTypeOffer
IsAck(m) == MessageTypeOf(m) = DHCPMsgTypeAck
AckFor(m, k) == IsAck(m) /\ IPString(m.dhcp.YourClientIP) = k

\* The payloads of the options of a DHCP layer that carry the given code.
OptionData(dhcp, code) ==
    {dhcp.Options[i].Data : i \in {j \in 1..Len(dhcp.Options) :
                                      dhcp.Options[j].Type = code}}

\* The sendPayload calls made for OFFERs, for ACKs, and the ARP replies.
SentFor(P(_)) == {i \in 1..Len(sent) : P(sent[i].msg)}
ProcessedThat(P(_)) == {i \in 1..Len(processed) : P(processed[i])}
SentArp == {i \in 1..Len(sent) : sent[i].payload.kind = "ARP"}

\* A step of Run that finishes the loop body for msg.
BodyStep == runPc = "body" /\ runPc' = "range"

\* C1, state part: with Arp or Bind enabled every processed ACK's address has
\* its lease, every lease carries the packet, the hardware address and the time
\* of the first ACK processed for its address, and no address is handed to
\* netlink.AddrAdd twice.
C1_LeaseOfFirstAck ==
    (options.Arp \/ options.Bind) =>
        /\ \A i \in ProcessedThat(IsAck) :
              IPString(processed[i].dhcp.YourClientIP) \in DOMAIN acquiredIPs
        /\ \A k \in DOMAIN acquiredIPs :
              LET acks == {i \in 1..Len(processed) : AckFor(processed[i], k)}
              IN /\ acks # {}
                 /\ LET first == CHOOSE i \in acks : \A j \in acks : i <= j
                    IN /\ acquiredIPs[k].Packet = processed[first]
                       /\ acquiredIPs[k].HwAddr = processed[first].dhcp.ClientHWAddr
                       /\ acquiredIPs[k].Acquired = first
        /\ \A i, j \in 1..Len(addCalls) : addCalls[i] = addCalls[j] => i = j

\* C1, step part: processing an ACK for an address that has a lease leaves the
\* lease table, the link and the AddrAdd calls as they were.
C1_LaterAckIgnored ==
    (/\ BodyStep
     /\ IsAck(msg)
     /\ IPString(msg.dhcp.YourClientIP) \in DOMAIN acquiredIPs)
    => /\ acquiredIPs' = acquiredIPs
       /\ addCalls' = addCalls
       /\ linkAddrs' = linkAddrs

\* C1: at most one lease per address, the lease is that of the first ACK for
\* the address, and a later ACK for it changes nothing and binds nothing.
C1_FirstAckWins == []C1_LeaseOfFirstAck /\ [][C1_LaterAckIgnored]_vars

\* C1 witness: two ACKs for one address with different hardware addresses were
\* processed with Bind enabled and the first one's binding succeeded.
C1_Witness ==
    /\ options.Bind
    /\ \E k \in DOMAIN acquiredIPs :
        /\ acquiredIPs[k].LinkAddr # NilAddr
        /\ \E i, j \in 1..Len(processed) :
            /\ i < j
            /\ AckFor(processed[i], k) /\ AckFor(processed[j], k)
            /\ processed[i].dhcp.ClientHWAddr # processed[j].dhcp.ClientHWAddr

\* C2: with Handshake enabled every processed OFFER has exactly one sendPayload
\* call, whose DHCP layer echoes the offer's transaction ID and client hardware
\* address, requests the offered address, echoes the server identifier, and is
\* a DECLINE when DhcpDecline is set and a REQUEST otherwise; with Handshake
\* disabled no payload is sent for an OFFER.
C2_RequestEchoesOffer ==
    /\ Cardinality(SentFor(IsOffer)) =
          IF options.Handshake THEN Cardinality(ProcessedThat(IsOffer)) ELSE 0
    /\ \A i \in SentFor(IsOffer) :
          LET offer == sent[i].msg.dhcp
              p == sent[i].payload
          IN /\ p.kind = "DHCP"
             /\ p.DHCPv4.Xid = offer.Xid
             /\ p.DHCPv4.ClientHWAddr = offer.ClientHWAddr
             /\ OptionData(p.DHCPv4, DHCPOptRequestIP) = {offer.YourClientIP}
             /\ OptionData(p.DHCPv4, DHCPOptServerID) =
                    {replyOptions(offer.Options, DHCPOptServerID).Data}
             /\ OptionData(p.DHCPv4, DHCPOptMessageType) =
                    {<<IF options.DhcpDecline THEN DHCPMsgTypeDecline
                       ELSE DHCPMsgTypeRequest>>}

\* C2 witness: a DECLINE was sent for an OFFER after another packet had used
\* the template.
C2_Witness ==
    /\ options.Handshake /\ options.DhcpDecline
    /\ Len(sent) >= 2
    /\ IsOffer(sent[Len(sent)].msg)
    /\ sent[Len(sent)].msg.dhcp.Xid # sent[1].msg.dhcp.Xid

\* C3: with DhcpRelease or DhcpInfo enabled every processed ACK has one
\* sendPayload call, unicast to the server: IP destination the ACK's IP source,
\* Ethernet destination the ACK's source MAC, client IP the acquired address,
\* flags zero, the ACK's transaction ID and client hardware address, and type
\* INFORM when DhcpInfo is set and RELEASE otherwise.
C3_ReleaseIsUnicast ==
    /\ (options.DhcpRelease \/ options.DhcpInfo) =>
          Cardinality(SentFor(IsAck)) = Cardinality(ProcessedThat(IsAck))
    /\ \A i \in SentFor(IsAck) :
          LET m == sent[i].msg
              p == sent[i].payload
          IN /\ options.DhcpRelease \/ options.DhcpInfo
             /\ p.kind = "DHCP"
             /\ p.IPv4.DstIP = m.IpSrcIP
             /\ p.Ethernet.DstMAC = m.EthSrcMAC
             /\ p.DHCPv4.ClientIP = m.dhcp.YourClientIP
             /\ p.DHCPv4.Flags = 0
             /\ p.DHCPv4.Xid = m.dhcp.Xid
             /\ p.DHCPv4.ClientHWAddr = m.dhcp.ClientHWAddr
             /\ OptionData(p.DHCPv4, DHCPOptMessageType) =
                    {<<IF options.DhcpInfo THEN DHCPMsgTypeInform
                       ELSE DHCPMsgTypeRelease>>}

\* C3 witness: a RELEASE was sent for an ACK while the template carries the
\* broadcast flag and the relay addresses.
C3_Witness ==
    /\ options.DhcpRelease /\ ~options.DhcpInfo
    /\ options.DhcpBroadcast /\ options.DhcpRelay
    /\ \E i \in SentFor(IsAck) : sent[i].msg.dhcp.YourClientIP = AddrB

\* C4: a loop body hands an ARP reply to sendPayload only when Arp is enabled,
\* the message is an ARP request and its target address is a key of the lease
\* table as the body starts; any other ARP message sends nothing.
C4_ArpStep ==
    BodyStep =>
        LET answered == /\ options.Arp
                        /\ msg.layer = "ARP"
                        /\ msg.arp.Operation = ARPRequest
                        /\ IPString(msg.arp.DstProtAddress) \in DOMAIN acquiredIPs
        IN /\ (Len(sent') > Len(sent) /\ sent'[Len(sent')].payload.kind = "ARP")
                => answered
           /\ (msg.layer = "ARP" /\ ~answered) => sent' = sent

C4_ArpReplyOnlyForLease == [][C4_ArpStep]_vars

\* C4 witness: an ARP reply was accepted by sendPayload for an ARP request
\* that followed the ACK for its target address.
C4_Witness ==
    /\ Len(processed) = 2
    /\ \E i \in SentArp : sent[i].ok /\ sent[i].msg = processed[2]

\* C5: every ARP defence reply has as source hardware address the lease's
\* hardware address when ArpFakeMAC is enabled and the interface's otherwise,
\* as source protocol address the requested address, and as destination
\* hardware and protocol addresses the requester's.
C5_ArpReplyFields ==
    \A i \in SentArp :
        LET req == sent[i].msg.arp
            arp == sent[i].payload.ARP
            k == IPString(req.DstProtAddress)
        IN /\ k \in DOMAIN acquiredIPs
           /\ arp.SourceHwAddress =
                 IF options.ArpFakeMAC THEN acquiredIPs[k].HwAddr
                 ELSE IfaceHardwareAddr
           /\ arp.SourceProtAddress = req.DstProtAddress
           /\ arp.DstHwAddress = req.SourceHwAddress
           /\ arp.DstProtAddress = req.SourceProtAddress

\* C5 witness: an ARP reply was sent with ArpFakeMAC enabled and carries the
\* hardware address of the lease's client.
C5_Witness ==
    /\ options.ArpFakeMAC
    /\ \E i \in SentArp : sent[i].payload.ARP.SourceHwAddress = ClientMAC2

\* C6: a loop body that synthesizes a RELEASE/INFORM for an ACK leaves the
\* template's ClientIP and Flags as they were before it, whatever sendPayload
\* answers.
C6_AckStep ==
    (BodyStep /\ IsAck(msg) /\ (options.DhcpRelease \/ options.DhcpInfo))
    => /\ Len(sent') = Len(sent) + 1
       /\ outDhcpLayer'.ClientIP = outDhcpLayer.ClientIP
       /\ outDhcpLayer'.Flags = outDhcpLayer.Flags

C6_TemplateRestored == [][C6_AckStep]_vars

\* C6 witness: with the broadcast flag configured, a RELEASE/INFORM that
\* sendPayload refused and one it accepted were sent, for different addresses.
C6_Witness ==
    /\ options.DhcpBroadcast
    /\ \E i, j \in SentFor(IsAck) :
          /\ ~sent[i].ok /\ sent[j].ok
          /\ sent[i].msg.dhcp.YourClientIP # sent[j].msg.dhcp.YourClientIP

\* C7: after DeInit with Bind enabled, the leases netlink.AddrDel was called
\* for are exactly those whose binding succeeded.
C7_RemovalsAreBindings ==
    (deinitDone /\ options.Bind) =>
        DOMAIN delCalls = {k \in DOMAIN acquiredIPs :
                              acquiredIPs[k].LinkAddr # NilAddr}

\* C8: a ReceiveMessage call on a queue below capacity appends the message and
\* returns true, a call on a full queue returns false and leaves the queue as
\* it was, and the queue never holds more than its capacity.
C8_ReceiveMessage ==
    /\ Len(inputChannel) <= QueueCap
    /\ lastCall.ret # "none" =>
          IF Len(lastCall.before) < QueueCap
          THEN /\ lastCall.ret = "true"
               /\ lastCall.after = Append(lastCall.before, lastCall.msg)
          ELSE /\ lastCall.ret = "false"
               /\ lastCall.after = lastCall.before

\* C9: the messages Run has processed, the one it is processing and the ones
\* still queued are, in this order, the messages ReceiveMessage accepted: Run
\* takes them in arrival order and has finished each before it takes the next.
C9_ArrivalOrder ==
    /\ accepted = processed \o (IF runPc = "body" THEN <<msg>> ELSE <<>>)
                            \o inputChannel
    /\ clock = Len(processed) + 1

\* C9 witness: one message was processed while two different ones wait.
C9_Witness ==
    /\ Len(processed) >= 1
    /\ Len(inputChannel) = 2
    /\ inputChannel[1] # inputChannel[2]

\* C10: when Stop has returned Run has left its loop and returned, and from
\* then on the lease table, the templates, the sendPayload calls, the AddrAdd
\* calls and the processed messages do not change.
C10_AfterStop ==
    stopPc = "returned" =>
        UNCHANGED <<acquiredIPs, ethernetLayer, ipLayer, udpLayer, outDhcpLayer,
                    sent, stats, addCalls, processed, clock, msg>>

C10_StopWaitsForRun ==
    /\ [](stopPc = "returned" => runPc = "returned")
    /\ [][C10_AfterStop]_vars

\* C10 witness: Stop returned after Run processed messages, and DeInit ran.
C10_Witness ==
    /\ stopPc = "returned"
    /\ deinitDone
    /\ Len(processed) >= 2

\* C11: once Run has been started and Stop has been called, Run eventually
\* signals completion and returns and Stop eventually returns.
C11_StopReturns ==
    (stopPc = "wait" /\ runPc # "idle")
        ~> (stopPc = "returned" /\ runPc = "returned")


\* A reply that lacks an expected option or carries it empty.
Malformed(m) ==
    /\ m.layer = "DHCP"
    /\ \/ m.dhcp.Options = <<>>
       \/ \A i \in 1..Len(m.dhcp.Options) :
             m.dhcp.Options[i].Type # DHCPOptMessageType
       \/ \E i \in 1..Len(m.dhcp.Options) :
             /\ m.dhcp.Options[i].Type = DHCPOptMessageType
             /\ m.dhcp.Options[i].Data = <<>>
       \/ m.dhcp.Options[1].Data = <<>>

\* C12: a malformed reply is skipped: the worker does not stop on it, no
\* payload is sent for it, no lease is made from it, and it counts as
\* processed, so that the next queued message is taken.
C12_MalformedSkipped ==
    /\ crashed = "Run" => ~Malformed(msg)
    /\ SentFor(Malformed) = {}
    /\ \A k \in DOMAIN acquiredIPs : ~Malformed(acquiredIPs[k].Packet)
    /\ (runPc = "returned" /\ crashed = "none") => processed = accepted


IsNak(m) == MessageTypeOf(m) = DHCPMsgTypeNak

NakStats == {i \in 1..Len(stats) : stats[i] = "NakReceivedStat"}

\* C13: the NAK-received statistic is recorded once for every processed reply
\* whose option 53 says NAK, wherever the option stands, and for no other
\* reply; no payload is sent for a NAK and no lease comes from one.
C13_NakCounted ==
    /\ Cardinality(NakStats) = Cardinality(ProcessedThat(IsNak))
    /\ SentFor(IsNak) = {}
    /\ \A k \in DOMAIN acquiredIPs : ~IsNak(acquiredIPs[k].Packet)


\* An ARP request, taken with Arp enabled, for an address without a lease.
UnknownTargetRequest ==
    /\ options.Arp
    /\ msg.layer = "ARP"
    /\ msg.arp.Operation = ARPRequest
    /\ IPString(msg.arp.DstProtAddress) \notin DOMAIN acquiredIPs

C14_SilentStep ==
    (BodyStep /\ UnknownTargetRequest) => (sent' = sent /\ stats' = stats)

\* C14 as stated: with Arp enabled, processing an ARP request whose target
\* address has no lease hands no payload to sendPayload and records no
\* statistic.
C14_UnknownTargetSilent == [][C14_SilentStep]_vars

C14_CountedStep ==
    (BodyStep /\ UnknownTargetRequest) =>
        /\ sent' = sent
        /\ stats' = Append(stats, "ArpRequestReceivedStat")

\* C14 amended: with Arp enabled, processing an ARP request whose target
\* address has no lease hands no payload to sendPayload and records exactly
\* one statistic, the ARP-request-received one, and no reply-sent statistic.
C14_UnknownTargetCounted == [][C14_CountedStep]_vars

\* C14 witness: the only message processed is an ARP request for an address
\* without a lease; nothing was sent and the request was counted.
C14_Witness ==
    /\ options.Arp
    /\ processed = <<ArpRequestA>>
    /\ acquiredIPs = <<>>
    /\ sent = <<>>
    /\ stats = <<"ArpRequestReceivedStat">>


C15_LeaseStep ==
    /\ \A k \in DOMAIN acquiredIPs :
          k \in DOMAIN acquiredIPs' /\ acquiredIPs'[k] = acquiredIPs[k]
    /\ \A k \in (DOMAIN acquiredIPs') \ (DOMAIN acquiredIPs) :
          /\ BodyStep
          /\ IsAck(msg)
          /\ options.Arp \/ options.Bind
          /\ k = IPString(msg.dhcp.YourClientIP)
          /\ acquiredIPs'[k].Packet = msg
          /\ acquiredIPs'[k].LinkAddr # NilAddr => options.Bind

\* C15: the lease table only grows.  A step adds a lease only when it is
\* Run's processing of an ACK with Arp or Bind enabled, the lease being the
\* one for that ACK's address, with its binding handle attached in that same
\* step; no step removes a lease or changes one that exists; with Arp and
\* Bind both disabled the table stays empty.
C15_LeaseTableGrows ==
    /\ [][C15_LeaseStep]_vars
    /\ []((~options.Arp /\ ~options.Bind) => acquiredIPs = <<>>)

\* C15 witness: the lease of a first ACK, with its binding handle, after a
\* second message was processed and after DeInit.
C15_Witness ==
    /\ Len(processed) = 2
    /\ deinitDone
    /\ \E k \in DOMAIN acquiredIPs :
          /\ acquiredIPs[k].Packet = processed[1]
          /\ acquiredIPs[k].LinkAddr # NilAddr


\* An ACK taken with Bind enabled for an address without a lease.
BindingAck ==
    /\ options.Bind
    /\ IsAck(msg)
    /\ IPString(msg.dhcp.YourClientIP) \notin DOMAIN acquiredIPs

C16_BindStep ==
    (BodyStep /\ BindingAck) =>
        LET k == IPString(msg.dhcp.YourClientIP)
            failed == Len(errors') = Len(errors) + 1
        IN /\ crashed' = "none"
           /\ processed' = Append(processed, msg)
           /\ k \in DOMAIN acquiredIPs'
           /\ Len(errors') \in {Len(errors), Len(errors) + 1}
           /\ failed =>
                 /\ errors'[Len(errors')] \in {"ParseAddr", "AddrAdd"}
                 /\ acquiredIPs'[k].LinkAddr = NilAddr
                 /\ linkAddrs' = linkAddrs
           /\ ~failed =>
                 /\ acquiredIPs'[k].LinkAddr = [IP |-> msg.dhcp.YourClientIP,
                                                Mask |-> AddrPrefixLen]
                 /\ acquiredIPs'[k].LinkAddr \in linkAddrs'
           /\ (options.DhcpRelease \/ options.DhcpInfo) =>
                 /\ Len(sent') = Len(sent) + 1
                 /\ sent'[Len(sent')].msg = msg
                 /\ sent'[Len(sent')].payload.kind = "DHCP"

\* C16: processing an ACK with Bind enabled either reports one error through
\* addError and leaves the new lease in the table without a binding handle,
\* or reports none and leaves it with the handle of the added address; in
\* both cases the RELEASE/INFORM for that ACK is synthesized when enabled and
\* Run goes on to the next message.
C16_BindErrorNotFatal ==
    /\ [][C16_BindStep]_vars
    /\ [](crashed = "Run" => ~IsAck(msg))

\* C16 witness: AddrAdd failed for the first ACK, whose lease has no handle
\* and whose RELEASE/INFORM was sent, and a later message was processed.
C16_Witness ==
    /\ Len(processed) = 2
    /\ errors = <<"AddrAdd">>
    /\ \E k \in DOMAIN acquiredIPs :
          /\ acquiredIPs[k].Packet = processed[1]
          /\ acquiredIPs[k].LinkAddr = NilAddr
    /\ \E i \in 1..Len(sent) : sent[i].msg = processed[1]


\* The payload Run synthesizes for the reply m when m is the first message
\* it processes: the layers are the templates of lines 105-153.
FirstPayload(o, m) ==
    IF IsOffer(m)
    THEN SerializeLayers(NewEthernetLayer(o), NewIpLayer(o),
             SetNetworkLayerForChecksum(NewUdpLayer(o), NewIpLayer(o)),
             RequestLayer(NewOutDhcpLayer(o), o, m.dhcp))
    ELSE SerializeLayers(ReleaseEthernetLayer(m), ReleaseIpLayer(m),
             SetNetworkLayerForChecksum(NewUdpLayer(o),
                 ReleaseChecksumLayer(NewIpLayer(o), ReleaseIpLayer(m))),
             ReleaseLayer(NewOutDhcpLayer(o), o, m.dhcp))

\* C17: every outbound DHCP payload is the one the same reply yields when it
\* is the first message processed, whatever was processed before it; a
\* REQUEST/DECLINE carries the configured broadcast flag and the template's
\* client IP also after RELEASE/INFORM syntheses.
C17_PayloadOfReplyAlone ==
    \A i \in 1..Len(sent) :
        sent[i].payload.kind = "DHCP" =>
            /\ sent[i].payload = FirstPayload(options, sent[i].msg)
            /\ IsOffer(sent[i].msg) =>
                  /\ sent[i].payload.DHCPv4.Flags =
                        (IF options.DhcpBroadcast THEN BroadcastFlag ELSE 0)
                  /\ sent[i].payload.DHCPv4.ClientIP = ZeroIP

\* C17 witness: with the broadcast flag configured, a REQUEST/DECLINE was
\* synthesized after a RELEASE/INFORM.
C17_Witness ==
    /\ options.DhcpBroadcast
    /\ Len(sent) = 2
    /\ IsAck(sent[1].msg)
    /\ IsOffer(sent[2].msg)


\* C18: when Stop has returned the queue is empty and Run has processed, in
\* full, every message ReceiveMessage accepted.
C18_NothingLostAtStop ==
    stopPc = "returned" =>
        /\ inputChannel = <<>>
        /\ processed = accepted
        /\ runPc = "returned"

\* C18 witness: Stop has returned and the two messages ReceiveMessage
\* accepted have both been processed.
C18_Witness ==
    /\ stopPc = "returned"
    /\ Len(accepted) = 2
    /\ processed = accepted


\* C19: every ReceiveMessage call returns true or false; none fails with a
\* send on the closed queue, whenever Stop closes it.
C19_ReceiveMessageReturns ==
    /\ lastCall.ret \in {"none", "true", "false"}
    /\ crashed # "ReceiveMessage"


\* C20: in every outbound DHCP payload the UDP checksum covers the addresses
\* of the IP header serialized in that payload, for a RELEASE/INFORM (the
\* unicast header) as for a REQUEST/DECLINE (the template's header).
C20_ChecksumOverSentHeader ==
    \A i \in 1..Len(sent) :
        sent[i].payload.kind = "DHCP" =>
            sent[i].payload.UDP.ChecksumOver =
                [SrcIP |-> sent[i].payload.IPv4.SrcIP,
                 DstIP |-> sent[i].payload.IPv4.DstIP]

=============================================================================
